---- MODULE Spec2Model ----
(***************************************************************************)
(* HackParams (src/count_poverty.ipynb): recovery of the lognormal         *)
(* parameters (mu, stdev) of an income distribution from the mean income,  *)
(* a poverty line and the poverty rate, and evaluation of the fitted       *)
(* distribution at another poverty line.                                   *)
(*                                                                         *)
(* Real numbers are fixed-point integers: the integer v stands for the     *)
(* real v / Scale.  Incomes and poverty lines are whole currency units.    *)
(* The library calls (math.log, math.sqrt, norm.cdf, fsolve, quad, round)  *)
(* are computed, not assumed: series, Newton and secant iterations in      *)
(* fixed-point arithmetic that stays inside 32-bit integers.               *)
(***************************************************************************)
EXTENDS Integers, Sequences, FiniteSets

VARIABLES average_income, poverty_line, poverty, percent, last, ncalls

vars == <<average_income, poverty_line, poverty, percent, last, ncalls>>

(***************************************************************************)
(* Fixed-point arithmetic                                                  *)
(***************************************************************************)
Scale == 1000 * 1000

Abs(a) == IF a >= 0 THEN a ELSE -a

Sgn(a) == IF a > 0 THEN 1 ELSE IF a < 0 THEN -1 ELSE 0

\* |a| * |b| / Scale rounded to nearest, by halves of three digits.
MulAbs(a, b) ==
  LET ah == a \div 1000
      al == a % 1000
      bh == b \div 1000
      bl == b % 1000
  IN  ah * bh + ((ah * bl + al * bh + (al * bl) \div 1000 + 500) \div 1000)

Mul(a, b) == Sgn(a) * Sgn(b) * MulAbs(Abs(a), Abs(b))

RECURSIVE DivDigits(_, _, _)
\* n decimal digits of r / b, for 0 <= r < b (long division).
DivDigits(r, b, n) ==
  IF n = 0 THEN 0
  ELSE LET q == (r * 10) \div b
           pw == IF n = 1 THEN 1 ELSE IF n = 2 THEN 10 ELSE IF n = 3 THEN 100
                 ELSE IF n = 4 THEN 1000 ELSE IF n = 5 THEN 10000
                 ELSE IF n = 6 THEN 100000 ELSE 1000000
       IN  q * pw + DivDigits((r * 10) % b, b, n - 1)

RECURSIVE RemDigits(_, _, _)
\* the remainder long division leaves after n digits.
RemDigits(r, b, n) == IF n = 0 THEN r ELSE RemDigits((r * 10) % b, b, n - 1)

\* the largest quotient kept: a float holds larger ones, the fixed-point
\* integer does not; every use of a quotient this large only asks whether it
\* lies beyond the quadrature nodes.
DivMax == 2000 * Scale

\* floor(a * Scale / b) for a >= 0, b > 0.
FloorDiv(a, b) ==
  IF a \div b >= 2000 THEN DivMax
  ELSE (a \div b) * Scale + DivDigits(a % b, b, 6)

\* a * Scale / b rounded to nearest, for a >= 0, b > 0.
DivAbs(a, b) ==
  IF a \div b >= 2000 THEN DivMax
  ELSE (a \div b) * Scale + ((DivDigits(a % b, b, 7) + 5) \div 10)

\* a / b, b # 0.
Div(a, b) == Sgn(a) * Sgn(b) * DivAbs(Abs(a), Abs(b))

(***************************************************************************)
(* math.log, math.sqrt, np.exp                                             *)
(***************************************************************************)
LN2 == 693147

RECURSIVE LnSeries(_, _, _, _)
\* t + t^3/3 + t^5/5 + ... (n terms), pw the current odd power of t.
LnSeries(t, pw, k, n) ==
  IF n = 0 \/ pw = 0 THEN 0
  ELSE (pw + k \div 2) \div k + LnSeries(t, Mul(Mul(pw, t), t), k + 2, n - 1)

\* ln(y) for 1 <= y < 2: 2 * atanh((y - 1) / (y + 1)).
LnNorm(y) == LET t == Div(y - Scale, y + Scale) IN 2 * LnSeries(t, t, 1, 8)

RECURSIVE LnRatio(_, _)
\* ln(n / d) for integers n > 0, d > 0, reduced to [1, 2) by powers of two.
LnRatio(n, d) ==
  IF n >= 2 * d THEN LN2 + LnRatio(n, 2 * d)
  ELSE IF n < d THEN LnRatio(2 * n, d) - LN2
  ELSE LnNorm(Div(n, d))

\* a log that takes 0 (to -inf, as np.log does) and raises only below it.
log_raises_below_zero(x) == x < 0

\* math.log raises ValueError (math domain error) outside x > 0.
log_raises(x) == x <= 0

\* what stands for log(0) = -inf where a log that does not raise is asked for
\* it; math.log raises first.
LogOfZero == -(1000 * Scale)

\* math.log(x) of a whole number x > 0.
math_log(x) == IF x <= 0 THEN LogOfZero ELSE LnRatio(x, 1)

\* math.log(a / l) for whole numbers a, l with a / l > 0.
log_ratio(a, l) == IF a = 0 THEN LogOfZero ELSE LnRatio(Abs(a), Abs(l))

\* above sqrt(x * Scale) for every x the integers hold.
SqrtStart == 46341 * 1000

RECURSIVE SqrtNewton(_, _)
\* integer Newton iteration from above: floor(sqrt(x * Scale)).
SqrtNewton(x, y) ==
  LET y1 == (y + FloorDiv(x, y)) \div 2
  IN  IF y1 >= y THEN y ELSE SqrtNewton(x, y1)

\* a square root that clamps a negative argument to 0 and never raises.
sqrt_clamps(x) == FALSE

\* math.sqrt raises ValueError (math domain error) for x < 0.
sqrt_raises(x) == x < 0

\* r = floor(sqrt(x)) taken to the nearest: up when x > (r + 1/2)^2, that is
\* when x / r - r > 1.
SqrtNearest(x, r) ==
  LET d == FloorDiv(x, r) - r
  IN  IF d >= 2 \/ (d = 1 /\ RemDigits(x % r, r, 6) >= 1) THEN r + 1 ELSE r

\* math.sqrt(x) for x >= 0, correctly rounded (as IEEE sqrt is), so that
\* sqrt(z**2) gives back |z|.
math_sqrt(x) == IF x <= 0 THEN 0 ELSE SqrtNearest(x, SqrtNewton(x, SqrtStart))

\* exp(-n) for n = 0, 1, 2, ...; below the resolution from n = 15 on.
ExpIntTab ==
  <<367879, 135335, 49787, 18316, 6738, 2479, 912, 335, 123, 45, 17, 6, 2, 1>>

ExpInt(n) == IF n = 0 THEN Scale ELSE IF n <= Len(ExpIntTab) THEN ExpIntTab[n] ELSE 0

RECURSIVE ExpHorner(_, _, _)
\* exp(-f) for 0 <= f < 1: 1 - f/1 (1 - f/2 (1 - f/3 ( ... ))).
ExpHorner(f, k, n) ==
  IF k > n THEN Scale
  ELSE Scale - ((Mul(f, ExpHorner(f, k + 1, n)) + k \div 2) \div k)

\* exp(-y) for y >= 0.
ExpNeg(y) == Mul(ExpInt(y \div Scale), ExpHorner(y % Scale, 1, 12))

\* the argument beyond which exp(-x^2/2) is not computed (it is 0 long before).
ExpCut == 40 * Scale

\* HackParams.integrand: np.exp((-x ** 2) / 2).
integrand(x) == IF Abs(x) >= ExpCut THEN 0 ELSE ExpNeg(Mul(x, x) \div 2)

(***************************************************************************)
(* scipy.stats.norm.cdf                                                    *)
(***************************************************************************)
INV_SQRT_2PI == 398942

SQRT_2PI == 2506628

CdfCoeff == <<319382, -356564, 1781478, -1821256, 1330274>>

\* b1 t + b2 t^2 + ... + b5 t^5.
CdfPoly(t) ==
  Mul(t, CdfCoeff[1] + Mul(t, CdfCoeff[2] + Mul(t, CdfCoeff[3]
    + Mul(t, CdfCoeff[4] + Mul(t, CdfCoeff[5])))))

\* 1 - Phi(x) for x >= 0 (Abramowitz-Stegun 26.2.17, |error| < 7.5e-8).
CdfUpper(x) ==
  Mul(Mul(INV_SQRT_2PI, integrand(x)), CdfPoly(Div(Scale, Scale + Mul(231642, x))))

norm_cdf(x) == IF x >= 0 THEN Scale - CdfUpper(x) ELSE CdfUpper(-x)

\* HackParams.equation: norm.cdf(x) - value.
equation(x, value) == norm_cdf(x) - value


(***************************************************************************)
(* scipy.optimize.fsolve (MINPACK hybrd) on one unknown                    *)
(***************************************************************************)
\* maxfev: hybrd's budget of function evaluations, 200 * (n + 1) for n = 1.
MaxFev == 400

\* the forward-difference step of the first Jacobian estimate.
FdStep == 1000

\* factor = 100: the bound on a step.
StepMax == 100 * Scale

Clip(step) == IF step > StepMax THEN StepMax ELSE IF step < -StepMax THEN -StepMax ELSE step

Halve(step) == Sgn(step) * (Abs(step) \div 2)

\* hybrd gives up (info = 5) after this many trial steps in a row that made
\* no progress.
MaxSlow == 10

\* the Newton step from residual f with the current slope, inside the bound.
NewtonStep(f, slope) == Clip(-Div(f, slope))

RECURSIVE hybrd(_, _, _, _, _, _)
RECURSIVE hybrd_trial(_, _, _, _, _, _, _)
\* The trial step from x (residual fx) to x + step (residual f1).  A step that
\* lowers |residual| is accepted and the slope updated from the two points
\* (Broyden's update, the secant slope in one dimension); one that does not is
\* halved.
hybrd_trial(x, fx, step, f1, value, slow, n) ==
  IF Abs(f1) < Abs(fx)
  THEN IF f1 = 0 \/ Div(f1 - fx, step) = 0 THEN x + step
       ELSE hybrd(x + step, f1, NewtonStep(f1, Div(f1 - fx, step)), value, 0, n - 1)
  ELSE hybrd(x, fx, Halve(step), value, slow + 1, n - 1)

\* The loop ends on a zero residual, a step below the resolution, a flat
\* slope, MaxSlow rejected steps in a row or the budget, and in every case
\* hands back the current iterate: fsolve only warns when hybrd reports no
\* convergence.
hybrd(x, fx, step, value, slow, n) ==
  IF n = 0 \/ step = 0 \/ slow = MaxSlow THEN x
  ELSE hybrd_trial(x, fx, step, equation(x + step, value), value, slow, n)

\* the first iteration: the slope at x0 = 0 by a forward difference (fdjac1).
hybrd_start(f0, f1, value) ==
  IF f0 = 0 \/ Div(f1 - f0, FdStep) = 0 THEN 0
  ELSE hybrd(0, f0, NewtonStep(f0, Div(f1 - f0, FdStep)), value, 0, MaxFev)

\* fsolve(self.equation, 0, self.poverty): start at x0 = 0.
fsolve(value) == hybrd_start(equation(0, value), equation(FdStep, value), value)

(***************************************************************************)
(* scipy.integrate.quad (QUADPACK qagie) on (-inf, u]                      *)
(***************************************************************************)
\* (1 - t) / t at the 15 Kronrod nodes t of (0, 1): the first panel samples
\* the integrand at u - QK15Dist[i] (dqk15i, x = u - (1 - t) / t).
QK15Dist ==
  <<233065169, 38298840, 13799952, 6737877, 3831936, 2366126, 1524567, 1000000,
    655924, 422632, 260965, 148415, 72464, 26110, 4291>>

\* |x| from which a sample of exp(-x^2/2), weighted, stays below epsabs = 1.49e-8.
NegligibleX == 7 * Scale

\* the first panel sees nothing of the integrand: its estimate and its error
\* estimate are both below the tolerance and qagie returns at once.
FirstPanelAccepts(u) ==
  \A i \in 1..Len(QK15Dist) : Abs(u - QK15Dist[i]) >= NegligibleX

\* quad(self.integrand, -np.inf, u).  u is [kind, val]; quad orders its limits
\* with min/max, which turns a nan upper limit into -inf.  Where the first
\* panel does not return, bisection converges to the integral itself.
quad(u) ==
  IF u.kind = "posinf" THEN SQRT_2PI
  ELSE IF u.kind \in {"neginf", "nan"} THEN 0
  ELSE IF FirstPanelAccepts(u.val) THEN 0
  ELSE Mul(SQRT_2PI, norm_cdf(u.val))

\* round(x, 2): to a multiple of 0.01.
round2(x) == ((x + 5000) \div 10000) * 10000

\* round(x, 4) for x >= 0: to a multiple of 0.0001, ties to even.
round4(x) ==
  LET q == x \div 100
      r == x % 100
  IN  IF r > 50 \/ (r = 50 /\ q % 2 = 1) THEN (q + 1) * 100 ELSE q * 100

\* numpy scalar division x / sigma: by zero it gives inf or nan with a
\* RuntimeWarning, not an exception.
np_divide(x, sigma) ==
  IF sigma # 0 THEN [kind |-> "finite", val |-> Div(x, sigma)]
  ELSE [kind |-> IF x > 0 THEN "posinf" ELSE IF x < 0 THEN "neginf" ELSE "nan",
        val |-> 0]

(***************************************************************************)
(* HackParams                                                              *)
(***************************************************************************)
\* what a call leaves behind: the outcome, the locals it computed and what it
\* returned.  A field the call never reached keeps its value from NoCall.
NoCall ==
  [op |-> "none", new_line |-> 0, outcome |-> "none",
   u_limit |-> 0, has_radicand |-> FALSE, radicand |-> 0,
   mu |-> 0, stdev |-> 0, has_sigma |-> FALSE, sigma |-> 0, ln_x0 |-> 0,
   has_u |-> FALSE, u |-> [kind |-> "finite", val |-> 0],
   integral |-> 0, result |-> 0]

Raise(rec, error) == [rec EXCEPT !.outcome = error]

\* HackParams.__init__: self.poverty = poverty/100.
init_poverty(pct) == Div(pct, 100 * Scale)

\* HackParams.find_upper_limit.
find_upper_limit(p) == fsolve(p)

\* 0.5 * stdev**2 subtracted from math.log(average_income).
location(a, stdev) == math_log(a) - (Mul(stdev, stdev) \div 2)

\* mu = math.log(self.average_income) - 0.5 * stdev**2, and the return.
find_params_mu(a, r1, stdev) ==
  IF log_raises(a) THEN Raise(r1, "ValueError")
  ELSE [r1 EXCEPT !.outcome = "returned", !.mu = location(a, stdev),
                  !.stdev = stdev]

\* stdev = upper_limit + math.sqrt(radicand).
find_params_stdev(a, r0, radicand) ==
  IF sqrt_raises(radicand)
  THEN Raise([r0 EXCEPT !.has_radicand = TRUE, !.radicand = radicand], "ValueError")
  ELSE find_params_mu(a, [r0 EXCEPT !.has_radicand = TRUE, !.radicand = radicand],
                      r0.u_limit + math_sqrt(radicand))

\* the radicand upper_limit**2 + 2 * math.log(average_income / poverty_line).
find_params_radicand(a, l, r0) ==
  IF l = 0 THEN Raise(r0, "ZeroDivisionError")
  ELSE IF log_raises(Sgn(a) * Sgn(l)) THEN Raise(r0, "ValueError")
  ELSE find_params_stdev(a, r0, Mul(r0.u_limit, r0.u_limit) + 2 * log_ratio(a, l))

\* HackParams.find_params.
find_params(a, l, p) ==
  find_params_radicand(a, l, [NoCall EXCEPT !.u_limit = find_upper_limit(p)])

\* ln_x0 with the factor 0.5 lost.
ln_x0_without_half(a, sigma) == math_log(a) - Mul(sigma, sigma)

\* ln_x0 of count_poverty.
ln_x0_of(a, sigma) == math_log(a) - (Mul(sigma, sigma) \div 2)

\* the percentage taken first and rounded after: round(100 * x, 4).
scale_then_round(normalized) == round4(normalized * 100)

\* round(...)*100 of count_poverty.
scale_result(normalized) == round4(normalized) * 100

\* result = round(integral / math.sqrt(2 * math.pi), 4); return result*100.
count_poverty_result(r1, integral) ==
  [r1 EXCEPT !.outcome = "returned", !.integral = integral,
             !.result = scale_result(Mul(INV_SQRT_2PI, integral))]

\* integral, error = quad(self.integrand, -np.inf, u).
count_poverty_integral(r0, u) ==
  count_poverty_result([r0 EXCEPT !.has_u = TRUE, !.u = u], quad(u))

\* u = (math.log(new_line) - ln_x0) / sigma.
count_poverty_u(r0, new_line) ==
  IF log_raises(new_line) THEN Raise(r0, "ValueError")
  ELSE count_poverty_integral(r0, np_divide(math_log(new_line) - r0.ln_x0, r0.sigma))

\* ln_x0, sigma = self.find_params(): an exception of find_params goes through.
count_poverty_params(a, fp, new_line) ==
  IF fp.outcome # "returned" THEN fp
  ELSE count_poverty_u([fp EXCEPT !.outcome = "none", !.has_sigma = TRUE,
                                  !.sigma = fp.stdev,
                                  !.ln_x0 = ln_x0_of(a, fp.stdev)],
                       new_line)

\* HackParams.count_poverty.
count_poverty(a, l, p, new_line) ==
  count_poverty_params(a, find_params(a, l, p), new_line)

(***************************************************************************)
(* Inputs                                                                  *)
(***************************************************************************)
AverageIncomes == {0, 100, 101, 44937}

PovertyLines == {0, 100, 200, 13545}

\* poverty rates in percent (fixed-point): 0, 9.8, 50, 90.2, 150.
PovertyPercents == {0, 9800000, 50 * Scale, 90200000, 150 * Scale}

NewLines == {-100, 0, 100, 200, 13545, 14545}

\* calls made on one instance.
MaxCalls == 2

(***************************************************************************)
(* The instance and the calls on it                                        *)
(***************************************************************************)
Init ==
  /\ average_income \in AverageIncomes
  /\ poverty_line \in PovertyLines
  /\ percent \in PovertyPercents
  /\ poverty = init_poverty(percent)
  /\ last = NoCall
  /\ ncalls = 0

CallFindUpperLimit ==
  /\ ncalls < MaxCalls
  /\ last' = [NoCall EXCEPT !.op = "find_upper_limit", !.outcome = "returned",
                            !.u_limit = find_upper_limit(poverty)]
  /\ ncalls' = ncalls + 1
  /\ UNCHANGED <<average_income, poverty_line, poverty, percent>>

CallFindParams ==
  /\ ncalls < MaxCalls
  /\ last' = [find_params(average_income, poverty_line, poverty)
                EXCEPT !.op = "find_params"]
  /\ ncalls' = ncalls + 1
  /\ UNCHANGED <<average_income, poverty_line, poverty, percent>>

\* count_poverty that keeps what it computed in the instance (self.poverty).
CallCountPovertyStoring(new_line) ==
  /\ ncalls < MaxCalls
  /\ last' = [count_poverty(average_income, poverty_line, poverty, new_line)
                EXCEPT !.op = "count_poverty", !.new_line = new_line]
  /\ ncalls' = ncalls + 1
  /\ poverty' = IF last'.outcome = "returned" THEN last'.result \div 100 ELSE poverty
  /\ UNCHANGED <<average_income, poverty_line, percent>>

CallCountPoverty(new_line) ==
  /\ ncalls < MaxCalls
  /\ last' = [count_poverty(average_income, poverty_line, poverty, new_line)
                EXCEPT !.op = "count_poverty", !.new_line = new_line]
  /\ ncalls' = ncalls + 1
  /\ UNCHANGED <<average_income, poverty_line, poverty, percent>>

Next ==
  \/ CallFindUpperLimit
  \/ CallFindParams
  \/ \E new_line \in NewLines : CallCountPoverty(new_line)

Spec == Init /\ [][Next]_vars


(***************************************************************************)
(* Properties                                                              *)
(***************************************************************************)
\* the inputs the data model calls valid: positive income and poverty line,
\* a poverty rate strictly between 0 and 100 percent.
ValidInputs ==
  /\ average_income > 0
  /\ poverty_line > 0
  /\ percent > 0
  /\ percent < 100 * Scale

\* 0.01 percentage points.
RoundTripTol == Scale \div 100

\* the smallest fitted scale the round trip is stated for.
MinScale == Scale \div 10

RoundTripCall == last.op = "count_poverty" /\ last.new_line = poverty_line

C2_Monotone ==
  [][(/\ ValidInputs
      /\ last.op = "count_poverty" /\ last.outcome = "returned"
      /\ last'.op = "count_poverty" /\ last'.outcome = "returned"
      /\ last.new_line <= last'.new_line)
        => last.result <= last'.result]_vars

\* C3: a returned pair has stdev > 0, and count_poverty never divides by a
\* scale that is zero or negative.
C3_ScalePositive ==
  /\ (last.op = "find_params" /\ last.outcome = "returned") => last.stdev > 0
  /\ (last.op = "count_poverty" /\ last.has_u) => last.sigma > 0

\* C4: when the radicand z^2 + 2 ln(average_income / poverty_line) is negative,
\* the call ends in the domain error of the square root: no pair is returned,
\* nothing is computed from a clamped root and no percentage is returned.
C4_NegativeRadicandRaises ==
  (last.has_radicand /\ last.radicand < 0)
    => (/\ last.outcome = "ValueError"
        /\ ~last.has_sigma
        /\ ~last.has_u)

C4_Witness ==
  /\ last.op = "find_params"
  /\ last.has_radicand
  /\ last.radicand < 0
  /\ last.outcome = "ValueError"
  /\ ValidInputs

\* C5: with a poverty rate outside (0, 100) (income and poverty line positive)
\* no call returns anything: the fit is rejected before the root solve or the
\* closed form runs.
C5_DomainRejection ==
  (/\ average_income > 0
   /\ poverty_line > 0
   /\ (percent <= 0 \/ percent >= 100 * Scale))
    => last.outcome # "returned"

\* the residual norm.cdf(z) - poverty a converged root solve may leave.
ResidualTol == Scale \div 1000

\* C6: a call that returns (income and poverty line positive) has computed
\* from a z that solves norm.cdf(z) = poverty; the solver's last iterate is
\* never handed back when the solve did not converge.
C6_NoStaleIterate ==
  (/\ average_income > 0
   /\ poverty_line > 0
   /\ last.op # "none"
   /\ last.outcome = "returned")
    => Abs(equation(last.u_limit, poverty)) <= ResidualTol

\* C7: count_poverty with new_line <= 0 ends in an error and returns no
\* percentage.
C7_NonPositiveLineRaises ==
  (last.op = "count_poverty" /\ last.new_line <= 0)
    => (/\ last.outcome \in {"ValueError", "ZeroDivisionError"}
        /\ ~last.has_u
        /\ last.result = 0)

C7_Witness ==
  /\ last.op = "count_poverty"
  /\ last.new_line <= 0
  /\ last.has_sigma
  /\ last.outcome = "ValueError"
  /\ ValidInputs

\* C8: whenever count_poverty returns, the value lies in [0, 100] and is 100
\* times a multiple of 0.0001: the fraction is rounded to 4 decimals first and
\* multiplied by 100 after.
C8_RoundedPercentage ==
  (last.op = "count_poverty" /\ last.outcome = "returned")
    => (/\ last.result >= 0
        /\ last.result <= 100 * Scale
        /\ last.result % (Scale \div 100) = 0
        /\ last.result = 100 * round4(Mul(INV_SQRT_2PI, last.integral)))

\* the notebook's example: HackParams(44937, 13545, 9.8).count_poverty(14545)
\* is 11.61.
C8_Witness ==
  /\ average_income = 44937 /\ poverty_line = 13545 /\ percent = 9800000
  /\ last.op = "count_poverty" /\ last.new_line = 14545
  /\ last.outcome = "returned"
  /\ last.result = 11610000

\* C9: no call changes average_income, poverty_line or poverty, and a call
\* repeated right after itself ends exactly as it did the first time.
C9_Stateless ==
  [][/\ average_income' = average_income
     /\ poverty_line' = poverty_line
     /\ poverty' = poverty
     /\ (last'.op = last.op /\ last'.new_line = last.new_line) => last' = last]_vars

C9_Witness ==
  /\ ValidInputs
  /\ ncalls >= 2
  /\ last.op = "count_poverty"
  /\ last.outcome = "returned"
  /\ poverty = init_poverty(percent)

\* section 4.3 of the specification: the evaluation at a threshold from a
\* given (location, scale).
evaluateAt(loc, scl, newThreshold) ==
  LET u == np_divide(math_log(newThreshold) - loc, scl)
  IN  100 * round4(Mul(INV_SQRT_2PI, quad(u)))

\* C10: count_poverty evaluates against the pair find_params reports on the
\* instance's fields: its sigma is that stdev, its ln_x0 is that mu, and what
\* it returns is the evaluation at (mu, stdev) with u = (ln(x) - mu) / stdev.
C10_SameParameters ==
  (last.op = "count_poverty" /\ last.has_sigma)
    => LET fp == find_params(average_income, poverty_line, poverty)
       IN  /\ fp.outcome = "returned"
           /\ last.sigma = fp.stdev
           /\ last.mu = fp.mu
           /\ last.ln_x0 = fp.mu
           /\ last.outcome = "returned"
                => last.result = evaluateAt(fp.mu, fp.stdev, last.new_line)

C10_Witness ==
  /\ last.op = "count_poverty"
  /\ last.outcome = "returned"
  /\ last.has_u
  /\ last.u.kind = "finite"
  /\ last.ln_x0 = last.mu
  /\ last.mu # 0
  /\ last.result > 0
  /\ last.result < 100 * Scale


====
